---- MODULE Spec2Model ----
(***************************************************************************)
(* Model of the incremental S3 -> PostgreSQL ingestion job                 *)
(* (src/app/etl_job.py, class S3ToPostgresETL).                            *)
(*                                                                         *)
(* The state is the object store (key -> LastModified), the two tables of  *)
(* the database as other sessions see them (committed rows), the job's     *)
(* connection with its open transaction, and the position of run() with    *)
(* its local variables.  One action per statement group of run(); the      *)
(* object store changes through Upload at any moment.                      *)
(*                                                                         *)
(* Time is one integer clock.  Each event that reads a clock (an upload,    *)
(* the start of a run, the first statement of a database transaction, the  *)
(* listing) happens at a time not before the previous one; two events can  *)
(* carry the same stamp.                                                   *)
(* CURRENT_TIMESTAMP in PostgreSQL is the start time of the current        *)
(* transaction, and psycopg2 opens a transaction at the first statement    *)
(* executed after connect/commit and keeps it open until commit/rollback.  *)
(***************************************************************************)
EXTENDS Integers, Sequences, FiniteSets, TLC

(* ---------------------------- bounds ---------------------------------- *)
\* number of invocations of run()
MaxRuns == 2
\* number of object uploads (PutObject) after the initial state
MaxUploads == 1
\* number of failures of the environment (the database or the object store
\* refusing a call for a reason of its own) during the whole behaviour
MaxFaults == 1
\* rows per round trip of execute_batch (page_size=1000 in the source,
\* scaled down so that a file of three rows spans two pages)
PageSize == 2
\* last value of the clock
MaxClock == 2
\* number of rows of an etl_metadata table given to get_last_sync_time on
\* its own
MaxMetaRows == 2
\* keys in one response of list_objects_v2 (1000 at the service, scaled down
\* to the buckets of the model)
MaxKeys == 3
\* number of data rows of a CSV given to transform_data on its own
MaxFrameRows == 2
\* default lookback window in clock ticks (timedelta(hours=24) in the
\* source, scaled down to the clock of the model)
Lookback == 1

(* ------------------------ pandas / CSV values -------------------------- *)
\* a missing numeric cell after read_csv, and the result of
\* pd.to_numeric(..., errors='coerce') on a non-numeric cell
NaN == 0 - 1
\* a cell holding text that is not a number
BAD == 0 - 2
\* a missing text cell (read_csv yields NaN for an empty field)
NA == ""

DateColumns == {"year", "month", "day", "hour"}
OtherColumns == {"terminal_id", "operation", "channel", "entity",
                 "cant_trx", "transaction_amount"}
AllColumns == DateColumns \cup OtherColumns

RawRow(t, op, ch, en, d, h, c, a) ==
    [terminal_id |-> t, operation |-> op, channel |-> ch, entity |-> en,
     year |-> 2024, month |-> 1, day |-> d, hour |-> h,
     cant_trx |-> c, transaction_amount |-> a]

\* The objects that can appear in the bucket, with their (fixed) content:
\* whether get_object/read_csv succeed on it, the columns of the CSV header
\* and the data rows.  a.csv is clean; b.csv has a non-numeric terminal_id
\* in its third row; c.csv lacks the hour column; d.csv repeats a natural
\* key of a.csv (day 2 at 0h is day 1 at 24h) and repeats it within itself.
Catalog ==
    [k \in {"a.csv", "b.csv", "c.csv", "d.csv", "e.txt"} |->
       CASE k = "a.csv" ->
              [parses |-> TRUE, columns |-> AllColumns,
               rows |-> << RawRow(101, "W", "ATM", "E1", 1, 24, 5, 50),
                           RawRow(102, "W", NA, NA, 1, 0, BAD, 7) >>]
         [] k = "b.csv" ->
              [parses |-> TRUE, columns |-> AllColumns,
               rows |-> << RawRow(105, "W", "ATM", "E1", 1, 0, 2, 20),
                           RawRow(102, "W", NA, "E4", 1, 0, 3, 30),
                           RawRow(BAD, "W", "ATM", "E1", 1, 0, 4, 40) >>]
         [] k = "c.csv" ->
              [parses |-> TRUE, columns |-> AllColumns \ {"hour"},
               rows |-> << RawRow(104, "W", "ATM", "E1", 1, 0, 1, 10) >>]
         [] k = "d.csv" ->
              [parses |-> TRUE, columns |-> AllColumns,
               rows |-> << RawRow(101, "W", "ATM", "E2", 2, 0, 6, 60),
                           RawRow(103, "D", "ATM", "E2", 2, 0, 1, NaN),
                           RawRow(101, "W", "ATM", "E3", 2, 0, 9, 90) >>]
         [] OTHER ->
              [parses |-> FALSE, columns |-> {}, rows |-> << >>] ]

Keys == DOMAIN Catalog

\* list_objects_v2 returns the keys in ascending (UTF-8 binary) order
KeyOrder == << "a.csv", "b.csv", "c.csv", "d.csv", "e.txt" >>

\* obj['Key'].endswith('.csv')
EndsWithCsv(k) == k \in {"a.csv", "b.csv", "c.csv", "d.csv"}

(* --------------------------- Transformer ------------------------------ *)
\* pd.to_numeric(x, errors='coerce'): text that is not a number becomes NaN
ToNumeric(x) == IF x = BAD THEN NaN ELSE x

\* Series.fillna(v)
FillNa(x, v) == IF x = NaN THEN v ELSE x

\* FillUnknown that leaves the missing cell as it is
FillUnknownKeep(x) == x

\* Series.fillna('Unknown') on a text column
FillUnknown(x) == IF x = NA THEN "Unknown" ELSE x

\* pd.to_datetime(df[['year','month','day','hour']]): year, month and day
\* are assembled as a calendar day (the catalog is all January 2024, which
\* has 31 days) and hour is added as a timedelta, so hour = 24 is the next
\* day at 00:00.  The value is the number of hours since 2024-01-01 00:00.
ValidDate(r) == r.year = 2024 /\ r.month = 1 /\ r.day \in 1..31
ToDatetime(r) == (r.day - 1) * 24 + r.hour

\* Series.dt.date
DateOf(dt) == dt \div 24

\* transform_data raises: ValueError when a date column is missing or the
\* date cannot be assembled, KeyError when another column is missing
TransformRaises(f) ==
    \/ ~ (DateColumns \subseteq f.columns)
    \/ \E n \in 1..Len(f.rows) : ~ ValidDate(f.rows[n])
    \/ ~ (OtherColumns \subseteq f.columns)

TransformRow(r) ==
    [terminal_id |-> ToNumeric(r.terminal_id),
     operation |-> FillUnknown(r.operation),
     channel |-> FillUnknown(r.channel),
     entity |-> FillUnknown(r.entity),
     year |-> r.year, month |-> r.month, day |-> r.day, hour |-> r.hour,
     cant_trx |-> FillNa(ToNumeric(r.cant_trx), 0),
     transaction_amount |-> FillNa(ToNumeric(r.transaction_amount), 0),
     transaction_datetime |-> ToDatetime(r),
     transaction_date |-> DateOf(ToDatetime(r))]

\* transform_data on a frame that passes the checks
transform_data(f) == [n \in 1..Len(f.rows) |-> TransformRow(f.rows[n])]

(* --------------------------- Upsert Loader ---------------------------- *)
\* the natural key: CONSTRAINT unique_transaction UNIQUE (...)
NaturalKey(r) ==
    << r.terminal_id, r.transaction_datetime, r.operation, r.channel >>

\* A NaN terminal_id reaches psycopg2 as a float NaN, which it renders as
\* 'NaN'::float; PostgreSQL refuses to assign that to the INTEGER column
\* ("integer out of range"), so the statement fails.
DbRejects(rec) == rec.terminal_id = NaN

\* the row INSERT stores for rec
NewRow(rec, file, id, ts) ==
    [id |-> id,
     terminal_id |-> rec.terminal_id,
     operation |-> rec.operation,
     channel |-> rec.channel,
     entity |-> rec.entity,
     year |-> rec.year, month |-> rec.month,
     day |-> rec.day, hour |-> rec.hour,
     cant_trx |-> rec.cant_trx,
     transaction_amount |-> rec.transaction_amount,
     transaction_datetime |-> rec.transaction_datetime,
     transaction_date |-> rec.transaction_date,
     source_file |-> file,
     loaded_at |-> ts]

\* UpsertRow as a plain INSERT, without the ON CONFLICT clause and without
\* the constraint it names
UpsertRowInsertOnly(rows, rec, file, id, ts) ==
    rows \cup {NewRow(rec, file, id, ts)}

\* UpsertRow with entity as a fifth column of the constraint and of the
\* conflict target
UpsertRowEntityKey(rows, rec, file, id, ts) ==
    LET hit == {r \in rows : /\ NaturalKey(r) = NaturalKey(rec)
                              /\ r.entity = rec.entity}
    IN  IF hit = {}
        THEN rows \cup {NewRow(rec, file, id, ts)}
        ELSE (rows \ hit) \cup
             {[r EXCEPT !.cant_trx = rec.cant_trx,
                        !.transaction_amount = rec.transaction_amount,
                        !.source_file = file,
                        !.loaded_at = ts] : r \in hit}

\* UpsertRow with a DO UPDATE SET that assigns every column of EXCLUDED
UpsertRowAllColumns(rows, rec, file, id, ts) ==
    LET hit == {r \in rows : NaturalKey(r) = NaturalKey(rec)}
    IN  IF hit = {}
        THEN rows \cup {NewRow(rec, file, id, ts)}
        ELSE (rows \ hit) \cup {NewRow(rec, file, r.id, ts) : r \in hit}

\* UpsertRow with ON CONFLICT (natural key) DO NOTHING
UpsertRowDoNothing(rows, rec, file, id, ts) ==
    LET hit == {r \in rows : NaturalKey(r) = NaturalKey(rec)}
    IN  IF hit = {}
        THEN rows \cup {NewRow(rec, file, id, ts)}
        ELSE rows

\* INSERT ... ON CONFLICT (natural key) DO UPDATE SET ... for one record,
\* on the transaction's view rows; id is the value nextval() handed out
\* for this statement, ts is CURRENT_TIMESTAMP.
UpsertRow(rows, rec, file, id, ts) ==
    LET hit == {r \in rows : NaturalKey(r) = NaturalKey(rec)}
    IN  IF hit = {}
        THEN rows \cup {NewRow(rec, file, id, ts)}
        ELSE (rows \ hit) \cup
             {[r EXCEPT !.cant_trx = rec.cant_trx,
                        !.transaction_amount = rec.transaction_amount,
                        !.entity = rec.entity,
                        !.source_file = file,
                        !.loaded_at = ts] : r \in hit}

\* One page of execute_batch: the statements of records from..to of d run
\* in order inside the open transaction.  The result is the new view, the
\* new value of the id sequence (nextval is consumed by every INSERT, also
\* by one that ends in DO UPDATE) and whether every statement succeeded.
RECURSIVE ExecPage(_, _, _, _, _, _, _)
ExecPage(rows, sq, d, from, to, file, ts) ==
    IF from > to
    THEN [rows |-> rows, seq |-> sq, ok |-> TRUE]
    ELSE IF DbRejects(d[from])
         THEN [rows |-> rows, seq |-> sq, ok |-> FALSE]
         ELSE ExecPage(UpsertRow(rows, d[from], file, sq + 1, ts),
                       sq + 1, d, from + 1, to, file, ts)

Min(a, b) == IF a < b THEN a ELSE b

(* --------------------------- Watermark Store -------------------------- *)
\* Python's None as returned by get_last_sync_time
None == 0 - 1

\* LastSyncResults without the WHERE status = 'success' clause
LastSyncResultsAnyStatus(m) ==
    LET top == {n \in 1..Len(m) :
                  \A o \in 1..Len(m) : m[o].created_at <= m[n].created_at}
    IN  IF top = {} THEN {None} ELSE {m[n].last_sync_time : n \in top}

\* LastSyncResults with ORDER BY created_at ASC
LastSyncResultsOldest(m) ==
    LET succ == {n \in 1..Len(m) : m[n].status = "success"}
        top == {n \in succ : \A o \in succ : m[o].created_at >= m[n].created_at}
    IN  IF succ = {} THEN {None} ELSE {m[n].last_sync_time : n \in top}

\* SELECT last_sync_time FROM etl_metadata WHERE status = 'success'
\* ORDER BY created_at DESC LIMIT 1: the values the query can return (rows
\* with equal created_at are returned in no particular order)
LastSyncResults(m) ==
    LET succ == {n \in 1..Len(m) : m[n].status = "success"}
        top == {n \in succ : \A o \in succ : m[o].created_at <= m[n].created_at}
    IN  IF succ = {} THEN {None} ELSE {m[n].last_sync_time : n \in top}

(* --------------------------- Object Store Lister ---------------------- *)
\* the keys of the objects among the first n of KeyOrder, in that order
RECURSIVE ObjectKeys(_, _)
ObjectKeys(store, n) ==
    IF n = 0 THEN << >>
    ELSE LET rest == ObjectKeys(store, n - 1)
         IN  IF store[KeyOrder[n]] # 0 THEN Append(rest, KeyOrder[n])
             ELSE rest

\* response['Contents'] of the one list_objects_v2 call: the first MaxKeys
\* keys of the bucket; what follows them is announced by IsTruncated and
\* NextContinuationToken, which the code does not read
Contents(store) ==
    LET all == ObjectKeys(store, Len(KeyOrder))
    IN  SubSeq(all, 1, Min(MaxKeys, Len(all)))

\* the filter of list_new_files over the entries c of a response, in order
RECURSIVE FilterNew(_, _, _)
FilterNew(c, store, wm) ==
    IF c = << >> THEN << >>
    ELSE LET k == Head(c)
             rest == FilterNew(Tail(c), store, wm)
         IN  IF EndsWithCsv(k) /\ store[k] > wm
             THEN << [key |-> k, last_modified |-> store[k]] >> \o rest
             ELSE rest

\* what list_new_files(wm) returns when its call succeeds
ListNew(store, wm) == FilterNew(Contents(store), store, wm)

(* ------------------------ Recommendation clients ---------------------- *)
\* no call of generate_recommendations is in progress
NoCall == [client |-> "none", temperature |-> 0, stage |-> "none",
           api |-> "none", response |-> "none", result |-> "none"]

(* ------------------------------ state --------------------------------- *)
VARIABLES
    s3,              \* key -> LastModified of the object, 0 when absent
    now,             \* the clock
    uploads,         \* number of uploads so far
    faults,          \* number of failures of the environment so far
    schema,          \* the tables that exist in the database
    table,           \* committed rows of transactions
    seq,             \* last value of the sequence behind transactions.id
    meta,            \* committed rows of etl_metadata, in insertion order
    conn,            \* "none", "idle" (no transaction), "open", "aborted"
                     \* (a statement failed inside the transaction), "closed"
    txnStart,        \* start time of the connection's open transaction,
                     \* 0 when it has none
    work,            \* transactions as the open transaction sees it
    pc,              \* position of run()
    runs,            \* number of invocations of run() so far
    last_sync,       \* run(): last_sync
    new_files,       \* run(): new_files
    i,               \* run(): index of file_info in new_files
    files_processed, \* run(): files_processed
    df,              \* run(): df
    sent,            \* load_data_to_postgres: records already executed
    outcome,         \* per listed file of this run: how its iteration ended
    call,            \* the call of generate_recommendations in progress
    hist             \* history, read by the properties only: the tables,
                     \* and the clock at the start of this run, whether and
                     \* when it has listed, its calls of update_sync_metadata,
                     \* whether the listing call of this run raised, and,
                     \* until this run has listed, the files that failed in
                     \* the run before if that one returned after recording
                     \* and the files the run before had listed if it ended
                     \* before recording, whether an object was written
                     \* since the last listing

vars == << call, s3, now, uploads, faults, schema, table, seq, meta, conn, txnStart, work,
           pc, runs, last_sync, new_files, i, files_processed, df, sent,
           outcome, hist >>

store == << s3, uploads, faults >>
db == << schema, table, seq, meta >>
session == << conn, txnStart, work >>
locals == << last_sync, new_files, i, files_processed, df, sent, outcome >>

\* the iterations of the current run that ended in the except branch
FailedFiles == {new_files[n] : n \in {m \in 1..Len(outcome) : outcome[m] # "ok"}}

\* Before the first run the bucket holds e.txt and any of the other objects,
\* written at time 1; the database is empty and has no tables.
Init ==
    /\ call = NoCall
    /\ s3 \in [Keys -> {0, 1}]
    /\ s3["e.txt"] = 1
    /\ now = 1
    /\ uploads = 0
    /\ faults = 0
    /\ schema = {}
    /\ table = {}
    /\ seq = 0
    /\ meta = << >>
    /\ conn = "none"
    /\ txnStart = 0
    /\ work = {}
    /\ pc = "idle"
    /\ runs = 0
    /\ last_sync = None
    /\ new_files = << >>
    /\ i = 0
    /\ files_processed = 0
    /\ df = [columns |-> {}, rows |-> << >>]
    /\ sent = 0
    /\ outcome = << >>
    /\ hist = [table0 |-> {}, meta0 |-> << >>, runStart |-> 0,
               listed |-> FALSE, recordCalls |-> 0,
               prevFailed |-> {}, prevListed |-> {}, listError |-> FALSE,
               storeChanged |-> FALSE]

(* ---------------------------- environment ------------------------------ *)
\* The times at which the next event that reads a clock can happen: time
\* passes between events, never backwards.
Later == now..MaxClock

\* An object is written to (or rewritten in) the bucket at time t.  The job
\* reads the bucket only in list_new_files, so uploads are taken at the
\* points of a run that differ in what the job can tell: between two runs,
\* between the read of the watermark and the listing, and between the
\* listing and the recording of the run.  An upload that no listing follows
\* (after the listing of the last run) changes nothing the job reads and is
\* left out, as is a rewrite of e.txt, which no listing returns.
Upload(k) ==
    /\ uploads < MaxUploads
    /\ EndsWithCsv(k)
    /\ \/ pc = "list"
       \/ /\ pc \in {"idle", "done", "failed", "crashed", "record"}
          /\ runs < MaxRuns
    /\ \E t \in Later :
         /\ s3' = [s3 EXCEPT ![k] = t]
         /\ now' = t
    /\ uploads' = uploads + 1
    /\ hist' = [hist EXCEPT !.storeChanged = TRUE]
    /\ UNCHANGED << call, faults, db, session, pc, runs, locals >>

(* ------------------------------- run() --------------------------------- *)
\* conn = self.get_db_connection(), entered from the job's entry point.  A
\* connection the previous run left open ends with its process; its
\* uncommitted work is discarded by the server.
Connect ==
    /\ pc \in {"idle", "done", "failed", "crashed"}
    /\ runs < MaxRuns
    /\ runs' = runs + 1
    /\ conn' = "idle"
    /\ work' = table
    /\ txnStart' = 0
    /\ pc' = "schema"
    /\ last_sync' = None
    /\ new_files' = << >>
    /\ i' = 0
    /\ files_processed' = 0
    /\ df' = [columns |-> {}, rows |-> << >>]
    /\ sent' = 0
    /\ outcome' = << >>
    /\ hist' = [table0 |-> table, meta0 |-> meta, runStart |-> now,
                listed |-> FALSE, recordCalls |-> 0,
                prevFailed |->
                    IF pc = "done" /\ Len(meta) > Len(hist.meta0)
                    THEN FailedFiles ELSE {},
                prevListed |->
                    IF pc \in {"failed", "crashed"} /\ meta = hist.meta0
                    THEN {new_files[n] : n \in 1..Len(new_files)} ELSE {},
                listError |-> FALSE,
                storeChanged |-> hist.storeChanged]
    /\ UNCHANGED << call, store, now, db >>

\* psycopg2.connect raises: logged and re-raised by run()
ConnectFails ==
    /\ pc \in {"idle", "done", "failed", "crashed"}
    /\ runs < MaxRuns
    /\ runs' = runs + 1
    /\ conn' = "none"
    /\ work' = table
    /\ txnStart' = 0
    /\ pc' = "failed"
    /\ last_sync' = None
    /\ new_files' = << >>
    /\ i' = 0
    /\ files_processed' = 0
    /\ df' = [columns |-> {}, rows |-> << >>]
    /\ sent' = 0
    /\ outcome' = << >>
    /\ hist' = [table0 |-> table, meta0 |-> meta, runStart |-> now,
                listed |-> FALSE, recordCalls |-> 0,
                prevFailed |-> {}, prevListed |-> {}, listError |-> FALSE,
                storeChanged |-> hist.storeChanged]
    /\ faults < MaxFaults
    /\ faults' = faults + 1
    /\ UNCHANGED << call, s3, uploads, now, db >>

\* create_table_if_not_exists with DROP TABLE IF EXISTS before the CREATE
create_table_drop_and_create ==
    /\ pc = "schema"
    /\ schema' = schema \cup {"transactions"}
    /\ table' = {}
    /\ work' = {}
    /\ conn' = "idle"
    /\ pc' = "lastsync"
    /\ UNCHANGED << call, store, now, seq, meta, txnStart, runs, locals, hist >>

\* self.create_table_if_not_exists(conn): CREATE ... IF NOT EXISTS; commit
create_table_if_not_exists ==
    /\ pc = "schema"
    /\ schema' = schema \cup {"transactions"}
    /\ conn' = "idle"
    /\ pc' = "lastsync"
    /\ UNCHANGED << call, store, now, table, seq, meta, txnStart, work, runs,
                    locals, hist >>

\* last_sync = self.get_last_sync_time(conn): CREATE TABLE IF NOT EXISTS
\* etl_metadata; commit; SELECT.  The SELECT opens a transaction (at time
\* t) that nothing in get_last_sync_time ends.
get_last_sync_time ==
    /\ pc = "lastsync"
    /\ schema' = schema \cup {"etl_metadata"}
    /\ \E r \in LastSyncResults(meta) : last_sync' = r
    /\ conn' = "open"
    /\ \E t \in Later : now' = t /\ txnStart' = t
    /\ work' = table
    /\ pc' = "list"
    /\ UNCHANGED << call, store, table, seq, meta, runs, new_files, i,
                    files_processed, df, sent, outcome, hist >>

\* list_new_files followed by a run() without "if not new_files: return"
list_new_files_no_return ==
    /\ pc = "list"
    /\ \E t \in Later :
         LET wm == IF last_sync = None THEN t - Lookback ELSE last_sync
             found == ListNew(s3, wm)
         IN  /\ new_files' = found
             /\ pc' = IF found = << >> THEN "record" ELSE "download"
             /\ i' = IF found = << >> THEN 0 ELSE 1
             /\ now' = t
             /\ hist' = [hist EXCEPT !.listed = TRUE, !.prevFailed = {},
                                     !.prevListed = {},
                                     !.storeChanged = FALSE]
    /\ files_processed' = 0
    /\ UNCHANGED << call, store, db, session, runs, last_sync, df, sent, outcome >>

\* new_files = self.list_new_files(last_sync) at time t, then "if not
\* new_files: return" and the loop header
list_new_files ==
    /\ pc = "list"
    /\ \E t \in Later :
         LET wm == IF last_sync = None THEN t - Lookback ELSE last_sync
             found == ListNew(s3, wm)
         IN  /\ new_files' = found
             /\ pc' = IF found = << >> THEN "done" ELSE "download"
             /\ i' = IF found = << >> THEN 0 ELSE 1
             /\ now' = t
             /\ hist' = [hist EXCEPT !.listed = TRUE, !.prevFailed = {},
                                     !.prevListed = {},
                                     !.storeChanged = FALSE]
    /\ files_processed' = 0
    /\ UNCHANGED << call, store, db, session, runs, last_sync, df, sent, outcome >>

\* ListFails in a list_new_files that logs the error and returns [] in
\* place of the raise, followed by a run() that records the run
ListFailsRecorded ==
    /\ pc = "list"
    /\ faults < MaxFaults
    /\ faults' = faults + 1
    /\ pc' = "record"
    /\ hist' = [hist EXCEPT !.listError = TRUE]
    /\ UNCHANGED << call, s3, uploads, now, db, session, runs, locals >>

\* list_objects_v2 raises: logged and re-raised by list_new_files and run()
ListFails ==
    /\ pc = "list"
    /\ faults < MaxFaults
    /\ faults' = faults + 1
    /\ pc' = "failed"
    /\ hist' = [hist EXCEPT !.listError = TRUE]
    /\ UNCHANGED << call, s3, uploads, now, db, session, runs, locals >>

\* EndIteration with an except branch that tries the same file again
EndIterationRetry(o) ==
    /\ outcome' = IF o = "ok" THEN Append(outcome, o) ELSE outcome
    /\ i' = IF o = "ok" THEN i + 1 ELSE i
    /\ pc' = IF o # "ok" \/ i < Len(new_files) THEN "download" ELSE "record"

\* EndIteration with an except branch that re-raises
EndIterationReraise(o) ==
    /\ outcome' = Append(outcome, o)
    /\ i' = i + 1
    /\ pc' = IF o # "ok" THEN "failed"
             ELSE IF i < Len(new_files) THEN "download" ELSE "record"

\* the end of one iteration of "for file_info in new_files" with result o:
\* "ok" after files_processed += 1, anything else is the except branch
\* (logger.error; continue).  After the last file the loop is left.
EndIteration(o) ==
    /\ outcome' = Append(outcome, o)
    /\ i' = i + 1
    /\ pc' = IF i < Len(new_files) THEN "download" ELSE "record"

\* df = self.download_and_parse_csv(file_info['key'])
download_and_parse_csv ==
    /\ pc = "download"
    /\ Catalog[new_files[i].key].parses
    /\ df' = [columns |-> Catalog[new_files[i].key].columns,
              rows |-> Catalog[new_files[i].key].rows]
    /\ pc' = "transform"
    /\ UNCHANGED << call, store, now, db, session, runs, last_sync, new_files, i,
                    files_processed, sent, outcome, hist >>

\* get_object or read_csv raises (the store is unreachable, or the content
\* is not delimited text): caught by the loop's except
DownloadFails ==
    /\ pc = "download"
    /\ faults < MaxFaults \/ ~ Catalog[new_files[i].key].parses
    /\ faults' = IF Catalog[new_files[i].key].parses THEN faults + 1
                 ELSE faults
    /\ EndIteration("fetch")
    /\ UNCHANGED << call, s3, uploads, now, db, session, runs, last_sync,
                    new_files, files_processed, df, sent, hist >>

\* df = self.transform_data(df)
transform_ok ==
    /\ pc = "transform"
    /\ ~ TransformRaises(df)
    /\ df' = [columns |-> df.columns \cup
                          {"transaction_datetime", "transaction_date"},
              rows |-> transform_data(df)]
    /\ sent' = 0
    /\ pc' = "load"
    /\ UNCHANGED << call, store, now, db, session, runs, last_sync, new_files, i,
                    files_processed, outcome, hist >>

\* transform_data raises: caught by the loop's except
transform_raises ==
    /\ pc = "transform"
    /\ TransformRaises(df)
    /\ EndIteration("schema")
    /\ UNCHANGED << call, store, now, db, session, runs, last_sync, new_files,
                    files_processed, df, sent, hist >>

\* The times at which the connection's next statement can run: any later
\* time when it begins a transaction; inside a transaction the time of the
\* statement is not observable.
StmtTimes == IF conn = "open" THEN {now} ELSE Later

\* CURRENT_TIMESTAMP of a statement run at time t, and the rows it sees
StmtTime(t) == IF conn = "open" THEN txnStart ELSE t
StmtView == IF conn = "open" THEN work ELSE table

\* the next page of execute_batch(cur, insert_sql, data_tuples, page_size)
\* run at time t
PageResult(t) ==
    ExecPage(StmtView, seq, df.rows, sent + 1,
             Min(sent + PageSize, Len(df.rows)), new_files[i].key,
             StmtTime(t))

\* load_page on a connection in autocommit mode
load_page_autocommit ==
    /\ pc = "load"
    /\ sent < Len(df.rows)
    /\ conn \in {"idle", "open"}
    /\ \E t \in StmtTimes :
         LET res == PageResult(t)
         IN  /\ res.ok
             /\ work' = res.rows
             /\ table' = res.rows
             /\ seq' = res.seq
             /\ txnStart' = StmtTime(t)
             /\ now' = t
    /\ conn' = "open"
    /\ sent' = Min(sent + PageSize, Len(df.rows))
    /\ UNCHANGED << call, store, schema, meta, pc, runs, last_sync,
                    new_files, i, files_processed, df, outcome, hist >>

\* load_data_to_postgres: one page of execute_batch succeeds
load_page ==
    /\ pc = "load"
    /\ sent < Len(df.rows)
    /\ conn \in {"idle", "open"}
    /\ \E t \in StmtTimes :
         LET res == PageResult(t)
         IN  /\ res.ok
             /\ work' = res.rows
             /\ seq' = res.seq
             /\ txnStart' = StmtTime(t)
             /\ now' = t
    /\ conn' = "open"
    /\ sent' = Min(sent + PageSize, Len(df.rows))
    /\ UNCHANGED << call, store, schema, table, meta, pc, runs, last_sync,
                    new_files, i, files_processed, df, outcome, hist >>

\* load_data_to_postgres: the page fails in the database, because a record
\* is rejected or (fault) for a reason of the server's own: a lock timeout,
\* a lost connection.  The transaction is now aborted; no rollback is issued
\* anywhere, the exception leaves "with conn.cursor()" (which only closes
\* the cursor) and is caught by the loop's except.  "aborted" stands for
\* every state of the connection in which each later statement raises.
load_page_fails ==
    /\ pc = "load"
    /\ sent < Len(df.rows)
    /\ conn \in {"idle", "open"}
    /\ \E t \in StmtTimes, fault \in BOOLEAN :
         LET res == PageResult(t)
         IN  /\ IF fault THEN faults < MaxFaults ELSE ~ res.ok
             /\ faults' = IF fault THEN faults + 1 ELSE faults
             /\ seq' = IF fault THEN seq ELSE res.seq
             /\ now' = t
    /\ txnStart' = 0
    /\ conn' = "aborted"
    /\ work' = table
    /\ EndIteration("load")
    /\ UNCHANGED << call, s3, uploads, schema, table, meta, runs, last_sync,
                    new_files, files_processed, df, sent, hist >>

\* load_data_to_postgres on a connection whose transaction is aborted:
\* every statement fails with InFailedSqlTransaction
load_in_aborted ==
    /\ pc = "load"
    /\ sent < Len(df.rows)
    /\ conn = "aborted"
    /\ EndIteration("aborted")
    /\ UNCHANGED << call, store, now, db, session, runs, last_sync, new_files,
                    files_processed, df, sent, hist >>

\* load_commit in a load_data_to_postgres without conn.commit(): the
\* transaction stays open until update_sync_metadata commits
load_commit_deferred ==
    /\ pc = "load"
    /\ sent = Len(df.rows)
    /\ files_processed' = files_processed + 1
    /\ EndIteration("ok")
    /\ UNCHANGED << call, store, now, db, session, runs, last_sync,
                    new_files, df, sent, hist >>

\* conn.commit() of load_data_to_postgres, then files_processed += 1.
\* (commit on an aborted transaction is a rollback and does not raise.)
load_commit ==
    /\ pc = "load"
    /\ sent = Len(df.rows)
    /\ table' = IF conn = "open" THEN work ELSE table
    /\ work' = IF conn = "open" THEN work ELSE table
    /\ conn' = "idle"
    /\ txnStart' = 0
    /\ files_processed' = files_processed + 1
    /\ EndIteration("ok")
    /\ UNCHANGED << call, store, now, schema, seq, meta, runs, last_sync,
                    new_files, df, sent, hist >>

\* update_sync_metadata that keeps one row: DELETE FROM etl_metadata before
\* the INSERT
update_sync_metadata_single_row ==
    /\ pc = "record"
    /\ conn \in {"idle", "open"}
    /\ \E t \in StmtTimes :
         /\ meta' = << [id |-> Len(meta) + 1,
                        last_sync_time |-> StmtTime(t),
                        status |-> "success",
                        files_processed |-> files_processed,
                        created_at |-> StmtTime(t)] >>
         /\ now' = t
    /\ txnStart' = 0
    /\ table' = StmtView
    /\ work' = StmtView
    /\ conn' = "idle"
    /\ pc' = "close"
    /\ hist' = [hist EXCEPT !.recordCalls = @ + 1]
    /\ UNCHANGED << call, store, schema, seq, runs, locals >>

\* update_sync_metadata called with len(new_files) as its argument
update_sync_metadata_listed ==
    /\ pc = "record"
    /\ conn \in {"idle", "open"}
    /\ \E t \in StmtTimes :
         /\ meta' = Append(meta, [id |-> Len(meta) + 1,
                                  last_sync_time |-> StmtTime(t),
                                  status |-> "success",
                                  files_processed |-> Len(new_files),
                                  created_at |-> StmtTime(t)])
         /\ now' = t
    /\ txnStart' = 0
    /\ table' = StmtView
    /\ work' = StmtView
    /\ conn' = "idle"
    /\ pc' = "close"
    /\ hist' = [hist EXCEPT !.recordCalls = @ + 1]
    /\ UNCHANGED << call, store, schema, seq, runs, locals >>

\* update_sync_metadata that records only runs with files_processed > 0
update_sync_metadata_skip_zero ==
    /\ pc = "record"
    /\ conn \in {"idle", "open"}
    /\ \E t \in StmtTimes :
         /\ meta' = IF files_processed = 0 THEN meta
                    ELSE Append(meta, [id |-> Len(meta) + 1,
                                       last_sync_time |-> StmtTime(t),
                                       status |-> "success",
                                       files_processed |-> files_processed,
                                       created_at |-> StmtTime(t)])
         /\ now' = t
    /\ txnStart' = 0
    /\ table' = StmtView
    /\ work' = StmtView
    /\ conn' = "idle"
    /\ pc' = "close"
    /\ hist' = [hist EXCEPT !.recordCalls = @ + 1]
    /\ UNCHANGED << call, store, schema, seq, runs, locals >>

\* self.update_sync_metadata(conn, files_processed): INSERT at time t;
\* commit
update_sync_metadata ==
    /\ pc = "record"
    /\ conn \in {"idle", "open"}
    /\ \E t \in StmtTimes :
         /\ meta' = Append(meta, [id |-> Len(meta) + 1,
                                  last_sync_time |-> StmtTime(t),
                                  status |-> "success",
                                  files_processed |-> files_processed,
                                  created_at |-> StmtTime(t)])
         /\ now' = t
    /\ txnStart' = 0
    /\ table' = StmtView
    /\ work' = StmtView
    /\ conn' = "idle"
    /\ pc' = "close"
    /\ hist' = [hist EXCEPT !.recordCalls = @ + 1]
    /\ UNCHANGED << call, store, schema, seq, runs, locals >>

\* update_sync_metadata_fails in a run() whose except branch rolls back and
\* records the run before it re-raises
update_sync_metadata_fails_recorded ==
    /\ pc = "record"
    /\ conn = "aborted"
    /\ pc' = "failed"
    /\ \E t \in Later :
         /\ meta' = Append(meta, [id |-> Len(meta) + 1,
                                  last_sync_time |-> t,
                                  status |-> "success",
                                  files_processed |-> files_processed,
                                  created_at |-> t])
         /\ now' = t
    /\ conn' = "idle"
    /\ hist' = [hist EXCEPT !.recordCalls = @ + 1]
    /\ UNCHANGED << call, store, schema, table, seq, txnStart, work, runs, locals >>

\* update_sync_metadata on a connection whose transaction is aborted: the
\* INSERT raises, run() logs "ETL job failed" and re-raises
update_sync_metadata_fails ==
    /\ pc = "record"
    /\ conn = "aborted"
    /\ pc' = "failed"
    /\ hist' = [hist EXCEPT !.recordCalls = @ + 1]
    /\ UNCHANGED << call, store, now, db, session, runs, locals >>

\* conn.close() and the return of run()
Close ==
    /\ pc = "close"
    /\ conn' = "closed"
    /\ pc' = "done"
    /\ UNCHANGED << call, store, now, db, txnStart, work, runs, locals, hist >>

\* The process of run() ends (it is killed, its host stops) at any point
\* between the listing and the commit of update_sync_metadata; before the
\* listing it leaves what ConnectFails and ListFails leave, after the commit
\* what Close leaves.  The server ends the session and discards the
\* transaction it had open; the variables of run() are gone with the
\* process (the listing is kept, for the history of the next run).
Crash ==
    /\ pc \in {"download", "transform", "load", "record"}
    /\ faults < MaxFaults
    /\ faults' = faults + 1
    /\ pc' = "crashed"
    /\ conn' = "closed"
    /\ txnStart' = 0
    /\ work' = table
    /\ last_sync' = None
    /\ i' = 0
    /\ files_processed' = 0
    /\ df' = [columns |-> {}, rows |-> << >>]
    /\ sent' = 0
    /\ outcome' = << >>
    /\ UNCHANGED << call, s3, uploads, now, db, runs, new_files, hist >>

Next ==
    \/ \E k \in Keys : Upload(k)
    \/ Connect
    \/ ConnectFails
    \/ create_table_if_not_exists
    \/ get_last_sync_time
    \/ list_new_files
    \/ ListFails
    \/ download_and_parse_csv
    \/ DownloadFails
    \/ transform_ok
    \/ transform_raises
    \/ load_page
    \/ load_page_fails
    \/ load_in_aborted
    \/ load_commit
    \/ update_sync_metadata
    \/ update_sync_metadata_fails
    \/ Close

Spec == Init /\ [][Next]_vars

\* the steps of run() after the connection is made
RunStep ==
    \/ create_table_if_not_exists
    \/ get_last_sync_time
    \/ list_new_files
    \/ download_and_parse_csv
    \/ DownloadFails
    \/ transform_ok
    \/ transform_raises
    \/ load_page
    \/ load_page_fails
    \/ load_in_aborted
    \/ load_commit
    \/ update_sync_metadata
    \/ update_sync_metadata_fails
    \/ Close

\* one invocation of run(), from its start to its end
NextOneRun ==
    \/ (runs = 0 /\ Connect)
    \/ (runs = 0 /\ ConnectFails)
    \/ \E k \in Keys : Upload(k)
    \/ ListFails
    \/ RunStep

\* run() is a sequential program whose process keeps running and whose
\* calls to the store and to the database return or raise: while a
\* statement of run() is to be executed, one is.
SpecFair == Init /\ [][NextOneRun]_vars /\ WF_vars(RunStep)

\* the job in an environment that can also end its process
NextCrash == Next \/ Crash

SpecCrash == Init /\ [][NextCrash]_vars

TypeOK ==
    /\ pc \in {"idle", "schema", "lastsync", "list", "download", "transform",
               "load", "record", "close", "done", "failed", "crashed"}
    /\ conn \in {"none", "idle", "open", "aborted", "closed"}
    /\ now \in 1..MaxClock
    /\ runs \in 0..MaxRuns
    /\ uploads \in 0..MaxUploads
    /\ faults \in 0..MaxFaults

\* the natural keys of the rows
KeysIn(rows) == {NaturalKey(r) : r \in rows}

(* ================= get_last_sync_time on any table =================== *)
(* get_last_sync_time called on a connection to a database whose           *)
(* etl_metadata holds any rows: update_sync_metadata takes the status as   *)
(* a parameter and the table is open to other writers.                     *)
MetaCell ==
    [last_sync_time : 1..MaxClock, status : {"success", "failed"},
     created_at : 1..MaxClock]

MetaTables ==
    UNION {{[n \in 1..len |->
               [id |-> n,
                last_sync_time |-> f[n].last_sync_time,
                status |-> f[n].status,
                files_processed |-> 0,
                created_at |-> f[n].created_at]] : f \in [1..len -> MetaCell]}
           : len \in 0..MaxMetaRows}

InitSync ==
    /\ call = NoCall
    /\ s3 = [k \in Keys |-> 1]
    /\ now = 1
    /\ uploads = 0
    /\ faults = 0
    /\ schema = {"transactions", "etl_metadata"}
    /\ table = {}
    /\ seq = 0
    /\ meta \in MetaTables
    /\ conn = "idle"
    /\ txnStart = 0
    /\ work = {}
    /\ pc = "lastsync"
    /\ runs = 1
    /\ last_sync = None
    /\ new_files = << >>
    /\ i = 0
    /\ files_processed = 0
    /\ df = [columns |-> {}, rows |-> << >>]
    /\ sent = 0
    /\ outcome = << >>
    /\ hist = [table0 |-> {}, meta0 |-> meta, runStart |-> 1,
               listed |-> FALSE, recordCalls |-> 0,
               prevFailed |-> {}, prevListed |-> {}, listError |-> FALSE,
               storeChanged |-> FALSE]

SpecSync == InitSync /\ [][get_last_sync_time]_vars

(* ================== one file through transform and load ================ *)
(* The loop body of run() from transform_data on, for one listed file whose *)
(* parsed content is any frame of complete header: each cell of a row is    *)
(* present or missing (text columns), numeric or not (numeric columns).     *)
(* The environment does not fail here: what happens is decided by the data. *)
FrameRows ==
    {RawRow(t, op, ch, en, 1, 0, ca[1], ca[2]) :
        t \in {101, BAD}, op \in {"W", NA}, ch \in {"ATM", NA},
        en \in {"E1", NA}, ca \in {<< 5, 7 >>, << BAD, 7 >>, << 5, BAD >>}}

Frames == UNION {[1..len -> FrameRows] : len \in 0..MaxFrameRows}

InitFrame ==
    /\ call = NoCall
    /\ s3 = [k \in Keys |-> IF k = "a.csv" THEN 1 ELSE 0]
    /\ now = MaxClock
    /\ uploads = 0
    /\ faults = MaxFaults
    /\ schema = {"transactions", "etl_metadata"}
    /\ table = {}
    /\ seq = 0
    /\ meta = << >>
    /\ conn = "open"
    /\ txnStart = MaxClock
    /\ work = {}
    /\ pc = "transform"
    /\ runs = 1
    /\ last_sync = None
    /\ new_files = << [key |-> "a.csv", last_modified |-> 1] >>
    /\ i = 1
    /\ files_processed = 0
    /\ \E f \in Frames : df = [columns |-> AllColumns, rows |-> f]
    /\ sent = 0
    /\ outcome = << >>
    /\ hist = [table0 |-> {}, meta0 |-> << >>, runStart |-> 1,
               listed |-> TRUE, recordCalls |-> 0,
               prevFailed |-> {}, prevListed |-> {}, listError |-> FALSE,
               storeChanged |-> FALSE]

NextFrame ==
    \/ transform_ok
    \/ load_page
    \/ load_page_fails
    \/ load_commit
    \/ update_sync_metadata
    \/ update_sync_metadata_fails
    \/ Close

SpecFrame == InitFrame /\ [][NextFrame]_vars

(* ====================== generate_recommendations ======================= *)
(* One call of generate_recommendations of GroqRecommendationClient or of   *)
(* OpenAIRecommendationClient (the two bodies are the same statements).     *)
(* The ETL job takes no part: its variables stay as InitClient sets them.   *)
Clients == {"Groq", "OpenAI"}

\* the values of the parameter temperature, in tenths (0.3 is the default)
Temperatures == {0, 3}

\* text values the model can answer with, and "recommendations" in text
JsonStrings == {"recommendations", "my recommendations", "none"}
ContainsRecommendations(str) ==
    str \in {"recommendations", "my recommendations"}

\* the documents json.loads can return
JsonValues ==
    [type : {"object"},
     keys : SUBSET {"recommendations", "summary", "error"}]
    \cup [type : {"array"}, items : SUBSET {"recommendations", "other"}]
    \cup [type : {"string"}, value : JsonStrings]
    \cup [type : {"number", "true", "false", "null"}]

\* what chat.completions.create returns when it returns: no choice at all,
\* a message without content, or a content that is JSON text (json is the
\* document it denotes) or is not (json is of type "malformed")
Responses ==
    {[choices |-> 0], [choices |-> 1, content |-> "None"]}
    \cup [choices : {1}, content : {"text"},
          json : JsonValues \cup {[type |-> "malformed"]}]

\* "recommendations" in v, for the value v of json.loads: key membership
\* for a dict, element membership for a list, substring for a str, and
\* TypeError for a number, a bool or None
PyBool(b) == IF b THEN "True" ELSE "False"

In(v) ==
    CASE v.type = "object" -> PyBool("recommendations" \in v.keys)
      [] v.type = "array" -> PyBool("recommendations" \in v.items)
      [] v.type = "string" -> PyBool(ContainsRecommendations(v.value))
      [] OTHER -> "TypeError"

\* the body of the try block after the API call, on the response r: the
\* exception it raises, or the value it returns
TryBlock(r) ==
    IF r.choices = 0 THEN [raises |-> "IndexError"]
    ELSE IF r.content = "None" THEN [raises |-> "TypeError"]
    ELSE IF r.json.type = "malformed" THEN [raises |-> "JSONDecodeError"]
    ELSE IF In(r.json) = "TypeError" THEN [raises |-> "TypeError"]
    ELSE IF In(r.json) = "False" THEN [raises |-> "ValueError"]
    ELSE [returns |-> r.json]

\* the except clauses: json.JSONDecodeError becomes ValueError, every other
\* Exception (the ValueError of the missing key is one) RuntimeError
Handlers(t) ==
    IF "returns" \in DOMAIN t THEN t
    ELSE IF t.raises = "JSONDecodeError" THEN [raises |-> "ValueError"]
         ELSE [raises |-> "RuntimeError"]

jobVars == << s3, now, uploads, faults, schema, table, seq, meta, conn,
              txnStart, work, pc, runs, last_sync, new_files, i,
              files_processed, df, sent, outcome, hist >>

InitClient ==
    /\ \E c \in Clients, t \in Temperatures :
         call = [client |-> c, temperature |-> t, stage |-> "create",
                 api |-> "pending", response |-> "none",
                 result |-> "none"]
    /\ s3 = [k \in Keys |-> 0]
    /\ now = 1
    /\ uploads = 0
    /\ faults = 0
    /\ schema = {}
    /\ table = {}
    /\ seq = 0
    /\ meta = << >>
    /\ conn = "none"
    /\ txnStart = 0
    /\ work = {}
    /\ pc = "idle"
    /\ runs = 0
    /\ last_sync = None
    /\ new_files = << >>
    /\ i = 0
    /\ files_processed = 0
    /\ df = [columns |-> {}, rows |-> << >>]
    /\ sent = 0
    /\ outcome = << >>
    /\ hist = [table0 |-> {}, meta0 |-> << >>, runStart |-> 0,
               listed |-> FALSE, recordCalls |-> 0,
               prevFailed |-> {}, prevListed |-> {}, listError |-> FALSE,
               storeChanged |-> FALSE]

\* self.client.chat.completions.create(...) returns the response r
completions_create ==
    /\ call.stage = "create"
    /\ \E r \in Responses :
         call' = [call EXCEPT !.stage = "parse", !.api = "returned",
                              !.response = r]
    /\ UNCHANGED jobVars

\* self.client.chat.completions.create(...) raises (connection, status or
\* rate-limit error of the SDK): caught by "except Exception"
completions_create_raises ==
    /\ call.stage = "create"
    /\ call' = [call EXCEPT !.stage = "done", !.api = "raised",
                            !.result = Handlers([raises |-> "APIError"])]
    /\ UNCHANGED jobVars

\* the rest of the try block and the except clauses
parse_and_validate ==
    /\ call.stage = "parse"
    /\ call' = [call EXCEPT !.stage = "done",
                            !.result = Handlers(TryBlock(call.response))]
    /\ UNCHANGED jobVars

NextClient ==
    \/ completions_create
    \/ completions_create_raises
    \/ parse_and_validate

SpecClient == InitClient /\ [][NextClient]_vars

(* ===================== two overlapping runs =========================== *)
(* Two invocations of run(), each on its own connection, inside their      *)
(* loops over the files they listed.  In this specification the variables  *)
(* of run() and of its connection (pc, new_files, i, files_processed, df,  *)
(* sent, outcome, conn, txnStart, work) hold one value per invocation;     *)
(* work[p] is the set of row versions p has written in its open            *)
(* transaction.  The statements of execute_batch run one at a time on the  *)
(* server, so statements of the two sessions interleave one by one.        *)
(* PostgreSQL runs them at READ COMMITTED: a statement sees the committed  *)
(* rows and the rows of its own transaction; an INSERT ... ON CONFLICT     *)
(* that meets a row version of the other session's open transaction with   *)
(* its natural key (an uncommitted insert or update) waits until that      *)
(* transaction ends.  A failed statement ends the transaction on the       *)
(* server, which drops its row versions and locks.                         *)
Runners == {1, 2}

\* the listings a run can get from a bucket whose objects were written at
\* time 1, in listing order
Listings ==
    {ListNew(st, 0) : st \in [Keys -> {0, 1}]} \ {<< >>}

InitPar ==
    /\ call = NoCall
    /\ s3 = [k \in Keys |-> 1]
    /\ now = 1
    /\ uploads = 0
    /\ faults = 0
    /\ schema = {"transactions", "etl_metadata"}
    /\ table = {}
    /\ seq = 0
    /\ meta = << >>
    /\ runs = Cardinality(Runners)
    /\ last_sync = None
    /\ hist = [table0 |-> {}, meta0 |-> << >>, runStart |-> 1,
               listed |-> TRUE, recordCalls |-> 0,
               prevFailed |-> {}, prevListed |-> {}, listError |-> FALSE,
               storeChanged |-> FALSE]
    /\ new_files \in [Runners -> Listings]
    /\ pc = [p \in Runners |-> "download"]
    /\ i = [p \in Runners |-> 1]
    /\ files_processed = [p \in Runners |-> 0]
    /\ df = [p \in Runners |-> [columns |-> {}, rows |-> << >>]]
    /\ sent = [p \in Runners |-> 0]
    /\ outcome = [p \in Runners |-> << >>]
    /\ conn = [p \in Runners |-> "idle"]
    /\ txnStart = [p \in Runners |-> 0]
    /\ work = [p \in Runners |-> {}]

\* the variables the loops of the two runs leave alone
parFixed == << s3, uploads, schema, meta, runs, last_sync, hist >>

\* the end of one iteration of p's loop with result o
EndIterationOf(p, o) ==
    /\ outcome' = [outcome EXCEPT ![p] = Append(@, o)]
    /\ i' = [i EXCEPT ![p] = @ + 1]
    /\ pc' = [pc EXCEPT ![p] = IF i[p] < Len(new_files[p]) THEN "download"
                               ELSE "record"]

\* the object of p's current iteration
FileOf(p) == new_files[p][i[p]].key

\* p: df = self.download_and_parse_csv(key); df = self.transform_data(df)
fetch_and_transform(p) ==
    /\ pc[p] = "download"
    /\ Catalog[FileOf(p)].parses
    /\ ~ TransformRaises(Catalog[FileOf(p)])
    /\ df' = [df EXCEPT ![p] =
                [columns |-> Catalog[FileOf(p)].columns \cup
                             {"transaction_datetime", "transaction_date"},
                 rows |-> transform_data(Catalog[FileOf(p)])]]
    /\ sent' = [sent EXCEPT ![p] = 0]
    /\ pc' = [pc EXCEPT ![p] = "load"]
    /\ UNCHANGED << call, parFixed, now, faults, table, seq, conn, txnStart, work,
                    new_files, i, files_processed, outcome >>

\* p: read_csv or transform_data raises, caught by the loop's except
fetch_or_transform_raises(p) ==
    /\ pc[p] = "download"
    /\ \/ ~ Catalog[FileOf(p)].parses
       \/ TransformRaises(Catalog[FileOf(p)])
    /\ EndIterationOf(p, "schema")
    /\ UNCHANGED << call, parFixed, now, faults, table, seq, conn, txnStart, work,
                    new_files, files_processed, df, sent >>

\* the rows a statement of p sees: the committed rows, with p's own row
\* versions in place of the committed ones
ViewOf(p) ==
    {r \in table : \A w \in work[p] : w.id # r.id} \cup work[p]

\* the record of p's next statement
NextRecord(p) == df[p].rows[sent[p] + 1]

\* the statement must wait: the other session's open transaction has
\* written a row with the natural key of the record
MustWait(p) ==
    \E q \in Runners \ {p} :
        conn[q] = "open" /\ NaturalKey(NextRecord(p)) \in KeysIn(work[q])

\* load_statement on a table without the unique constraint: nothing to wait
\* for, and nothing to conflict with but the rows the statement sees
load_statement_unconstrained(p) ==
    /\ pc[p] = "load"
    /\ sent[p] < Len(df[p].rows)
    /\ conn[p] \in {"idle", "open"}
    /\ ~ DbRejects(NextRecord(p))
    /\ \E t \in (IF conn[p] = "open" THEN {now} ELSE Later) :
         LET ts == IF conn[p] = "open" THEN txnStart[p] ELSE t
             nk == NaturalKey(NextRecord(p))
             view == UpsertRow(ViewOf(p), NextRecord(p), FileOf(p),
                               seq + 1, ts)
         IN  /\ work' = [work EXCEPT ![p] =
                           {r \in @ : NaturalKey(r) # nk} \cup
                           {r \in view : NaturalKey(r) = nk}]
             /\ txnStart' = [txnStart EXCEPT ![p] = ts]
             /\ now' = t
    /\ seq' = seq + 1
    /\ conn' = [conn EXCEPT ![p] = "open"]
    /\ sent' = [sent EXCEPT ![p] = @ + 1]
    /\ UNCHANGED << call, parFixed, faults, table, pc, new_files, i,
                    files_processed, df, outcome >>

\* p: one INSERT ... ON CONFLICT DO UPDATE of execute_batch, run at time t
load_statement(p) ==
    /\ pc[p] = "load"
    /\ sent[p] < Len(df[p].rows)
    /\ conn[p] \in {"idle", "open"}
    /\ ~ DbRejects(NextRecord(p))
    /\ ~ MustWait(p)
    /\ \E t \in (IF conn[p] = "open" THEN {now} ELSE Later) :
         LET ts == IF conn[p] = "open" THEN txnStart[p] ELSE t
             nk == NaturalKey(NextRecord(p))
             view == UpsertRow(ViewOf(p), NextRecord(p), FileOf(p),
                               seq + 1, ts)
         IN  /\ work' = [work EXCEPT ![p] =
                           {r \in @ : NaturalKey(r) # nk} \cup
                           {r \in view : NaturalKey(r) = nk}]
             /\ txnStart' = [txnStart EXCEPT ![p] = ts]
             /\ now' = t
    /\ seq' = seq + 1
    /\ conn' = [conn EXCEPT ![p] = "open"]
    /\ sent' = [sent EXCEPT ![p] = @ + 1]
    /\ UNCHANGED << call, parFixed, faults, table, pc, new_files, i,
                    files_processed, df, outcome >>

\* p: the statement fails, because the record is rejected or (fault) for a
\* reason of the server's own: it is the victim of a deadlock, it waited
\* longer than lock_timeout.  The transaction is aborted and its row
\* versions are dropped; the exception is caught by the loop's except.
load_statement_fails(p) ==
    /\ pc[p] = "load"
    /\ sent[p] < Len(df[p].rows)
    /\ conn[p] \in {"idle", "open"}
    /\ \E fault \in BOOLEAN :
         /\ IF fault THEN faults < MaxFaults ELSE DbRejects(NextRecord(p))
         /\ faults' = IF fault THEN faults + 1 ELSE faults
    /\ conn' = [conn EXCEPT ![p] = "aborted"]
    /\ work' = [work EXCEPT ![p] = {}]
    /\ txnStart' = [txnStart EXCEPT ![p] = 0]
    /\ EndIterationOf(p, "load")
    /\ UNCHANGED << call, parFixed, now, table, seq, new_files, files_processed,
                    df, sent >>

\* p: load_data_to_postgres on a connection whose transaction is aborted
load_statement_in_aborted(p) ==
    /\ pc[p] = "load"
    /\ sent[p] < Len(df[p].rows)
    /\ conn[p] = "aborted"
    /\ EndIterationOf(p, "aborted")
    /\ UNCHANGED << call, parFixed, now, faults, table, seq, conn, txnStart, work,
                    new_files, files_processed, df, sent >>

\* p: conn.commit() of load_data_to_postgres, then files_processed += 1
commit_load(p) ==
    /\ pc[p] = "load"
    /\ sent[p] = Len(df[p].rows)
    /\ table' = ViewOf(p)
    /\ work' = [work EXCEPT ![p] = {}]
    /\ conn' = [conn EXCEPT ![p] = "idle"]
    /\ txnStart' = [txnStart EXCEPT ![p] = 0]
    /\ files_processed' = [files_processed EXCEPT ![p] = @ + 1]
    /\ EndIterationOf(p, "ok")
    /\ UNCHANGED << call, parFixed, now, faults, seq, new_files, df, sent >>

NextPar ==
    \E p \in Runners :
        \/ fetch_and_transform(p)
        \/ fetch_or_transform_raises(p)
        \/ load_statement(p)
        \/ load_statement_fails(p)
        \/ load_statement_in_aborted(p)
        \/ commit_load(p)

SpecPar == InitPar /\ [][NextPar]_vars

(* ======================= properties of the job ======================== *)
ListedKeys == {new_files[n].key : n \in 1..Len(new_files)}
Attempted == 1..Len(outcome)

\* the records transform_data produces for the object k
RecordsOf(k) ==
    {TransformRow(Catalog[k].rows[n]) : n \in 1..Len(Catalog[k].rows)}

\* C1: a failure of the upsert of file k is recoverable: the failed file's
\* transaction is rolled back, no later file fails because of it, and
\* update_sync_metadata succeeds, so run() does not raise.
C1_LoadFailureRecoverable ==
    \A k \in Attempted :
        outcome[k] = "load" =>
            /\ conn # "aborted"
            /\ \A j \in Attempted : j > k => outcome[j] # "aborted"
            /\ pc # "failed"

\* C2: when exactly one listed file fails, and it fails in fetch, parse or
\* transform, the run does not raise, counts and records every other file
\* (files_processed = N - 1), every record of the other files is in the
\* destination table as written by the last listed file holding its key,
\* and the failed file wrote no row.
OnlyFailure(k) ==
    /\ outcome[k] \in {"fetch", "schema"}
    /\ \A j \in Attempted : j # k => outcome[j] = "ok"

C2_PerFileIsolation ==
    \A k \in Attempted :
        (Len(outcome) = Len(new_files) /\ OnlyFailure(k)) =>
            /\ pc # "failed"
            /\ files_processed = Len(new_files) - 1
            /\ pc = "done" =>
                   meta[Len(meta)].files_processed = Len(new_files) - 1
            /\ \A j \in Attempted \ {k} :
                 \A rec \in RecordsOf(new_files[j].key) :
                   \E r \in table :
                     /\ NaturalKey(r) = NaturalKey(rec)
                     /\ r.source_file \in ListedKeys \ {new_files[k].key}
                     /\ \A m \in Attempted \ {k} :
                          NaturalKey(rec) \in
                            {NaturalKey(x) : x \in RecordsOf(new_files[m].key)}
                          => \E n \in m..Len(new_files) :
                                 r.source_file = new_files[n].key
            /\ \A r \in table :
                 r.source_file = new_files[k].key => r \in hist.table0

\* a run of three listed files in which only the file without the hour
\* column failed has returned
C2_Witness ==
    /\ pc = "done"
    /\ Len(new_files) = 3
    /\ \E k \in Attempted : OnlyFailure(k) /\ outcome[k] = "schema"

\* a step of load_commit
LoadCommitStep == pc = "load" /\ sent = Len(df.rows) /\ outcome' # outcome

\* the last of the records from..to of d with the natural key nk
LastRecord(d, from, to, nk) ==
    d[CHOOSE n \in from..to :
        /\ NaturalKey(d[n]) = nk
        /\ \A m \in from..to : m > n => NaturalKey(d[m]) # nk]

\* row r carries the mutable fields of record rec as loaded from file at ts
CarriesLoad(r, rec, file, ts) ==
    /\ r.cant_trx = rec.cant_trx
    /\ r.transaction_amount = rec.transaction_amount
    /\ r.entity = rec.entity
    /\ r.source_file = file
    /\ r.loaded_at = ts

\* C3: committing the load of a file whose natural keys are all in the
\* table already, as they are when the file was loaded before, leaves the
\* number of rows unchanged, and for each natural key of the file exactly
\* one row, which carries count, amount, entity, source_file and loaded_at
\* of this (the later) load.
C3_IdempotentUpsert ==
    [][ (/\ LoadCommitStep
         /\ \A n \in 1..Len(df.rows) :
              NaturalKey(df.rows[n]) \in KeysIn(table)) =>
          /\ Cardinality(table') = Cardinality(table)
          /\ \A n \in 1..Len(df.rows) :
               LET nk == NaturalKey(df.rows[n])
                   rec == LastRecord(df.rows, 1, Len(df.rows), nk)
               IN  /\ Cardinality({r \in table' : NaturalKey(r) = nk}) = 1
                   /\ \A r \in table' :
                        NaturalKey(r) = nk =>
                          CarriesLoad(r, rec, new_files[i].key, txnStart)
      ]_vars

\* the rows a.csv inserted in an earlier run have been overwritten by a
\* later load of a.csv
C3_Witness ==
    \E r \in table, r0 \in hist.table0 :
        /\ r.id = r0.id
        /\ r0.source_file = "a.csv" /\ r.source_file = "a.csv"
        /\ r.loaded_at > r0.loaded_at

\* C4: in the destination table, as committed and as seen inside the job's
\* transaction, no two rows have the same natural key.
KeyUnique(rows) ==
    \A r1, r2 \in rows : NaturalKey(r1) = NaturalKey(r2) => r1 = r2

C4_NaturalKeyUnique == KeyUnique(table) /\ KeyUnique(work)

\* a row inserted by a.csv has been overwritten by d.csv, and in this run a
\* file with a record without terminal_id was offered to the loader
C4_Witness ==
    /\ \E r \in table : r.id = 1 /\ r.source_file = "d.csv"
    /\ \E k \in Attempted :
         /\ outcome[k] = "load"
         /\ \E rec \in RecordsOf(new_files[k].key) : rec.terminal_id = NaN

\* the columns the upsert never assigns
Identity(r) ==
    << r.id, r.terminal_id, r.transaction_datetime, r.operation, r.channel,
       r.year, r.month, r.day, r.hour, r.transaction_date >>

\* C5: a page of upserts changes, of a row whose natural key is in the page,
\* only cant_trx, transaction_amount, entity, source_file and loaded_at, and
\* leaves every row whose natural key is not in the page as it was.
C5_UpsertFrame ==
    [][ (pc = "load" /\ sent' > sent) =>
          LET pageKeys == {NaturalKey(df.rows[n]) : n \in (sent + 1)..sent'}
          IN  \A r \in StmtView :
                IF NaturalKey(r) \in pageKeys
                THEN \E r2 \in work' :
                       /\ Identity(r2) = Identity(r)
                       /\ CarriesLoad(r2,
                                      LastRecord(df.rows, sent + 1, sent',
                                                 NaturalKey(r)),
                                      new_files[i].key, txnStart')
                ELSE r \in work'
      ]_vars

\* the row a.csv inserted for day 1, 24h has taken the values of d.csv
\* (day 2, 0h) and kept its id, day and hour; a row of another key is there
C5_Witness ==
    /\ \E r \in table :
         r.id = 1 /\ r.source_file = "d.csv" /\ r.day = 1 /\ r.hour = 24
    /\ \E r \in table : r.source_file = "a.csv"

\* C6: the committed table changes only by the commit of a whole file:
\* every record of the file has been executed, and after the step each
\* natural key of the file has its row as written by this load.
C6_NoPartialLoad ==
    [][ table' # table =>
          /\ pc = "load"
          /\ sent = Len(df.rows)
          /\ \A n \in 1..Len(df.rows) :
               \E r \in table' :
                 /\ NaturalKey(r) = NaturalKey(df.rows[n])
                 /\ r.source_file = new_files[i].key
                 /\ r.loaded_at = txnStart
      ]_vars

\* the load of b.csv failed in its second page, after the first page had
\* been executed, and no row of b.csv is in the table
C6_Witness ==
    /\ conn = "aborted"
    /\ sent = PageSize
    /\ outcome # << >> /\ outcome[Len(outcome)] = "load"
    /\ seq > 0
    /\ \A r \in table : r.source_file # new_files[Len(outcome)].key

\* a step in which list_new_files returns
ListingStep == pc = "list" /\ ~ hist.listed /\ hist'.listed

\* C7: a file that failed in the previous run, which returned after
\* recording, is in the listing of this run when the object was not
\* rewritten since and its LastModified is within the lookback window.
C7_FailedFileRetried ==
    [][ ListingStep =>
          \A f \in hist.prevFailed :
              (/\ s3[f.key] = f.last_modified
               /\ f.last_modified > now' - Lookback)
              => f.key \in ListedKeys'
      ]_vars

\* the files the lister returns for the watermark t on the present store
ListedAt(t) ==
    LET found == ListNew(s3, t)
    IN  {found[n].key : n \in 1..Len(found)}

\* C8: after a run has recorded its SyncRun with files_processed > 0,
\* get_last_sync_time returns a time not before the start of that run, and
\* list_new_files with it returns no file the run processed whose
\* LastModified precedes it.
C8_WatermarkMonotonic ==
    (pc \in {"close", "done"} /\ hist.recordCalls = 1 /\ files_processed > 0)
    => \A t \in LastSyncResults(meta) :
          /\ t # None
          /\ t >= hist.runStart
          /\ \A n \in Attempted :
               (outcome[n] = "ok" /\ s3[new_files[n].key] < t)
               => new_files[n].key \notin ListedAt(t)

\* a run has returned after recording a watermark later than its start,
\* with a processed file older than the watermark
C8_Witness ==
    /\ pc = "done" /\ hist.recordCalls = 1 /\ files_processed > 0
    /\ meta[Len(meta)].last_sync_time > hist.runStart
    /\ \E n \in Attempted :
         /\ outcome[n] = "ok"
         /\ s3[new_files[n].key] < meta[Len(meta)].last_sync_time

\* C9: update_sync_metadata is called at most once per run and only after
\* every listed file has been attempted; a run with a non-empty listing
\* that returns has called it once and has appended exactly one SyncRun
\* row, also when no file succeeded.
C9_RecordOnce ==
    /\ hist.recordCalls <= 1
    /\ Len(outcome) < Len(new_files) =>
           hist.recordCalls = 0 /\ meta = hist.meta0
    /\ Len(meta) <= Len(hist.meta0) + 1
    /\ (pc = "done" /\ new_files # << >>) =>
           /\ hist.recordCalls = 1
           /\ Len(outcome) = Len(new_files)
           /\ Len(meta) = Len(hist.meta0) + 1
           /\ SubSeq(meta, 1, Len(hist.meta0)) = hist.meta0
           /\ meta[Len(meta)].files_processed = files_processed

\* a run in which both listed files failed has returned
C9_Witness ==
    /\ pc = "done"
    /\ Len(new_files) = 2
    /\ files_processed = 0
    /\ Len(meta) = Len(hist.meta0) + 1

\* C10: a run whose listing is empty returns without raising, without
\* calling update_sync_metadata and without writing: both tables, and so
\* the result of get_last_sync_time, are as they were at its start.
C10_EmptyListingNoWrite ==
    (hist.listed /\ new_files = << >>) =>
        /\ pc = "done"
        /\ hist.recordCalls = 0
        /\ meta = hist.meta0
        /\ table = hist.table0
        /\ LastSyncResults(meta) = LastSyncResults(hist.meta0)

\* a run after one that recorded found nothing new although the bucket
\* holds objects, and has returned
C10_Witness ==
    /\ hist.listed /\ new_files = << >> /\ pc = "done"
    /\ meta # << >>
    /\ table # {}
    /\ \E k \in Keys : s3[k] # 0

\* C11: when the listing call of the object store fails, run() raises, no
\* file is fetched, transformed or loaded, update_sync_metadata is not
\* called, both tables are as they were at the start of the run, and
\* get_last_sync_time returns what it returned before the run.
C11_ListingFailureAborts ==
    hist.listError =>
        /\ pc = "failed"
        /\ new_files = << >> /\ outcome = << >>
        /\ df.rows = << >> /\ sent = 0 /\ files_processed = 0
        /\ hist.recordCalls = 0
        /\ work = table
        /\ table = hist.table0
        /\ meta = hist.meta0
        /\ LastSyncResults(meta) = LastSyncResults(hist.meta0)

\* the listing failed in a run that had read a watermark and had a file
\* newer than the watermark waiting in the bucket
C11_Witness ==
    /\ hist.listError
    /\ last_sync # None
    /\ ListedAt(last_sync) # {}
    /\ table # {}

\* a step in which a run ends, by an exception or with its process, before
\* update_sync_metadata has committed
EndsBeforeRecording ==
    /\ pc \in {"schema", "lastsync", "list", "download", "transform", "load",
               "record", "close"}
    /\ pc' \in {"failed", "crashed"}
    /\ meta = hist.meta0

\* every row of the table before the step is in the table after it, under
\* the same id and natural key
RowsStay ==
    \A r \in table : \E r2 \in table' : Identity(r2) = Identity(r)

FromOneLoad(r) ==
    LET d == transform_data(Catalog[r.source_file])
    IN  /\ \E n \in 1..Len(d) : NaturalKey(d[n]) = NaturalKey(r)
        /\ LET rec == LastRecord(d, 1, Len(d), NaturalKey(r))
           IN  /\ r.cant_trx = rec.cant_trx
               /\ r.transaction_amount = rec.transaction_amount
               /\ r.entity = rec.entity

\* C13: with two overlapping runs on separate connections, under every
\* interleaving of the statements and commits of their per-file
\* transactions, the table has one row per natural key, and each row's
\* count, amount, entity and source_file come from one load of that key.
C13_OverlappingRunsKeepRows ==
    /\ KeyUnique(table)
    /\ \A r \in table : FromOneLoad(r)

\* a statement of one run waits for the open transaction of the other,
\* which has written, from another file, over the committed row of the
\* same natural key
C13_Witness ==
    \E p \in Runners : \E q \in Runners \ {p} :
        /\ pc[p] = "load" /\ sent[p] < Len(df[p].rows)
        /\ pc[q] = "load"
        /\ MustWait(p)
        /\ FileOf(p) # FileOf(q)
        /\ \E r \in table, w \in work[q] :
             /\ w.id = r.id
             /\ NaturalKey(r) = NaturalKey(NextRecord(p))
             /\ w.source_file # r.source_file

\* C14: get_last_sync_time returns the last_sync_time of a row with status
\* 'success' that no other 'success' row was created after, whatever rows
\* of another status the table holds, and None when the table has no
\* 'success' row; it leaves the rows of the table as they are.
C14_LastSuccessfulSync ==
    [][ pc = "lastsync" =>
          /\ meta' = meta
          /\ IF \A n \in 1..Len(meta) : meta[n].status # "success"
             THEN last_sync' = None
             ELSE \E n \in 1..Len(meta) :
                    /\ meta[n].status = "success"
                    /\ last_sync' = meta[n].last_sync_time
                    /\ \A o \in 1..Len(meta) :
                         meta[o].status = "success" =>
                           meta[o].created_at <= meta[n].created_at
      ]_vars

\* get_last_sync_time has returned the time of a 'success' row although a
\* row of another status, with another time, was created after it
C14_Witness ==
    /\ pc = "list"
    /\ \E n, o \in 1..Len(meta) :
         /\ meta[n].status = "success"
         /\ meta[o].status = "failed"
         /\ meta[o].created_at > meta[n].created_at
         /\ meta[o].last_sync_time # meta[n].last_sync_time
         /\ last_sync = meta[n].last_sync_time

\* C15: with the watermark W, list_new_files returns exactly the objects of
\* the bucket whose key ends in ".csv" and whose LastModified is strictly
\* greater than W, each with its LastModified, however many objects the
\* bucket holds.
C15_ListsEveryNewCsv ==
    [][ ListingStep =>
          LET W == IF last_sync = None THEN now' - Lookback ELSE last_sync
          IN  /\ ListedKeys' = {k \in Keys : /\ s3[k] # 0
                                             /\ EndsWithCsv(k)
                                             /\ s3[k] > W}
              /\ \A n \in 1..Len(new_files') :
                    new_files'[n].last_modified = s3[new_files'[n].key]
      ]_vars

\* C16: when get_last_sync_time returned None, the run lists with the
\* watermark (current time - 24 hours): a ".csv" object modified within the
\* last 24 hours is listed and one modified earlier is not.
C16_DefaultLookback ==
    [][ (ListingStep /\ last_sync = None) =>
          \A k \in Keys :
             (s3[k] # 0 /\ EndsWithCsv(k)) =>
                (k \in ListedKeys' <=> s3[k] > now' - Lookback)
      ]_vars

\* the positions of run() before the first file is processed
BeforeFirstFile ==
    {"idle", "done", "failed", "crashed", "schema", "lastsync", "list"}

\* a step in which an iteration of the loop over new_files ends in the
\* except branch
IterationFails ==
    /\ pc \in {"download", "transform", "load"}
    /\ Len(outcome') = Len(outcome) + 1
    /\ outcome'[Len(outcome')] # "ok"

\* C17: run() raises to its caller only from a position before the first
\* file is processed or from recording the run; a failure of fetch, parse,
\* transform or load inside the iteration of file i never does: it leaves
\* the counter as it is and moves the loop to file i+1 (to recording after
\* the last file).
C17_FailedOnlyOutsideLoop ==
    [][ /\ (pc' = "failed" /\ (pc # "failed" \/ runs' # runs)) =>
              pc \in BeforeFirstFile \cup {"record"}
        /\ IterationFails =>
              /\ i' = i + 1
              /\ files_processed' = files_processed
              /\ new_files' = new_files
              /\ pc' = IF i < Len(new_files) THEN "download" ELSE "record"
      ]_vars

\* a run that went through a failed load and a failed transform, file after
\* file, and raised from recording
C17_Witness ==
    /\ pc = "failed"
    /\ hist.recordCalls = 1
    /\ Len(new_files) = 2
    /\ outcome = << "load", "schema" >>
    /\ i = 3

\* the files of the listing whose iteration ended without an exception
Succeeded == {n \in Attempted : outcome[n] = "ok"}

\* C18: the counter of a run changes only by one, in the step that commits
\* the load of the current file (whose records are then in the table), and
\* never in a failing iteration; the files_processed of the SyncRun row a
\* run appends is the number of listed files whose fetch, parse, transform,
\* load and commit all succeeded, which is at most the number listed.
C18_FilesProcessedCount ==
    [][ /\ (files_processed' # files_processed /\ runs' = runs) =>
              /\ files_processed' = files_processed + 1
              /\ pc = "load" /\ sent = Len(df.rows)
              /\ outcome' = Append(outcome, "ok")
              /\ \A rec \in RecordsOf(new_files[i].key) :
                    \E r \in table' :
                       NaturalKey(r) = NaturalKey(rec)
              /\ \E r \in table' : r.source_file = new_files[i].key
        /\ IterationFails => files_processed' = files_processed
        /\ meta' # meta =>
              /\ Len(outcome) = Len(new_files)
              /\ meta'[Len(meta')].files_processed = Cardinality(Succeeded)
              /\ meta'[Len(meta')].files_processed <= Len(new_files)
      ]_vars

\* a run that listed three files, of which one failed, has written its row
C18_Witness ==
    /\ pc = "close"
    /\ Len(new_files) = 3
    /\ Cardinality(Succeeded) = 2
    /\ Len(meta) = Len(hist.meta0) + 1
    /\ meta[Len(meta)].files_processed = 2

Dimensions == {"operation", "channel", "entity"}

\* a step in which transform_data returns
TransformStep == pc = "transform" /\ pc' = "load"

\* a step in which the load of the current file is committed
CommitStep == pc = "load" /\ outcome' = Append(outcome, "ok")

\* C19: transform_data returns as many rows as it is given, each with
\* "Unknown" in the place of a missing operation, channel or entity and the
\* other dimension values as they were; every row of a committed file is in
\* the table under its key, and no row of the table has a missing
\* operation, channel or entity.
C19_MissingDimensionUnknown ==
    [][ /\ TransformStep =>
              /\ Len(df'.rows) = Len(df.rows)
              /\ \A n \in 1..Len(df.rows) : \A c \in Dimensions :
                    df'.rows[n][c] = IF df.rows[n][c] = NA THEN "Unknown"
                                     ELSE df.rows[n][c]
        /\ CommitStep =>
              \A n \in 1..Len(df.rows) :
                 \E r \in table' :
                    /\ NaturalKey(r) = NaturalKey(df.rows[n])
                    /\ r.operation = df.rows[n].operation
                    /\ r.channel = df.rows[n].channel
        /\ \A r \in table' : \A c \in Dimensions : r[c] # NA
      ]_vars

\* two rows, one without operation, one without channel and entity, are in
\* the table
C19_Witness ==
    /\ outcome = << "ok" >>
    /\ Len(df.rows) = 2
    /\ Cardinality(table) = 2
    /\ \E r \in table : r.operation = "Unknown" /\ r.channel = "ATM"
    /\ \E r \in table : /\ r.operation = "W"
                        /\ r.channel = "Unknown"
                        /\ r.entity = "Unknown"

\* C20: transform_data turns a non-numeric terminal_id into null and a
\* non-numeric count or amount into 0; the load of a file with such rows
\* succeeds and is counted, and each of its rows is then in the table, with
\* a null terminal_id where the input had a non-numeric one.
C20_NonNumericStored ==
    [][ /\ TransformStep =>
              \A n \in 1..Len(df.rows) :
                 /\ df.rows[n].terminal_id = BAD =>
                       df'.rows[n].terminal_id = NaN
                 /\ df.rows[n].cant_trx = BAD => df'.rows[n].cant_trx = 0
                 /\ df.rows[n].transaction_amount = BAD =>
                       df'.rows[n].transaction_amount = 0
        /\ (pc = "load" /\ pc' # "load") =>
              /\ outcome' = Append(outcome, "ok")
              /\ files_processed' = files_processed + 1
              /\ \A n \in 1..Len(df.rows) :
                    \E r \in table' : NaturalKey(r) = NaturalKey(df.rows[n])
      ]_vars

\* a step that writes to transactions (also inside a transaction that is
\* not yet committed) or to etl_metadata
WritingStep ==
    \/ table' # table
    \/ meta' # meta
    \/ (pc = "load" /\ work' # work)

\* C21: create_table_if_not_exists and the creation of etl_metadata in
\* get_last_sync_time leave the rows of both tables as they are, also when
\* the tables exist and hold rows; after them the tables exist, so that no
\* upsert and no INSERT into etl_metadata runs without both.
C21_SchemaIdempotent ==
    [][ /\ pc \in {"schema", "lastsync"} =>
              /\ table' = table /\ meta' = meta /\ seq' = seq
              /\ schema \subseteq schema'
        /\ pc = "schema" => "transactions" \in schema'
        /\ pc = "lastsync" => "etl_metadata" \in schema'
        /\ WritingStep => schema = {"transactions", "etl_metadata"}
      ]_vars

\* the second run has gone through both creations on tables that hold the
\* rows of the first
C21_Witness ==
    /\ pc = "list"
    /\ runs = 2
    /\ table # {} /\ table = hist.table0
    /\ meta # << >> /\ meta = hist.meta0
    /\ schema = {"transactions", "etl_metadata"}

\* the response is a recommendations document: JSON text of an object
\* with the key "recommendations"
ValidDocument(r) ==
    /\ r.choices = 1 /\ r.content = "text"
    /\ r.json.type = "object" /\ "recommendations" \in r.json.keys

\* the API call returned a response with a content
Answered(r) == r.choices = 1 /\ r.content = "text"

\* C22: generate_recommendations raises ValueError when the API answered
\* with a content that is not a recommendations document (not JSON, or
\* without the key "recommendations"), raises RuntimeError only when the
\* API call itself failed, and whatever it returns has the key
\* "recommendations".
C22_ErrorContract ==
    call.stage = "done" =>
        /\ (call.api = "returned" /\ Answered(call.response)
               /\ ~ ValidDocument(call.response)) =>
                  call.result = [raises |-> "ValueError"]
        /\ (call.api = "returned" /\ Answered(call.response)) =>
              call.result # [raises |-> "RuntimeError"]
        /\ "returns" \in DOMAIN call.result =>
              /\ call.result.returns.type = "object"
              /\ "recommendations" \in call.result.returns.keys

\* the records of the n-th listed file, in file order
LoadedFrom(n) == transform_data(Catalog[new_files[n].key])

\* the n-th listed file was loaded and holds a record of natural key nk
LoadedKey(n, nk) ==
    /\ outcome[n] = "ok"
    /\ \E x \in 1..Len(LoadedFrom(n)) : NaturalKey(LoadedFrom(n)[x]) = nk

\* C23: when the run has attempted every listed file and two of them, both
\* loaded, hold a record of the same natural key, the table has one row of
\* that key, and its count, amount, entity and source_file are those of
\* the last record of that key in the loaded file that comes last in the
\* listing; source_file is that file's key.
C23_LaterLoadedWins ==
    Len(outcome) = Len(new_files) =>
        \A m, n \in Attempted : \A nk \in KeysIn(table) :
            (/\ m < n
             /\ LoadedKey(m, nk) /\ LoadedKey(n, nk)
             /\ \A o \in Attempted : o > n => ~ LoadedKey(o, nk)) =>
                LET rec == LastRecord(LoadedFrom(n), 1, Len(LoadedFrom(n)), nk)
                IN  /\ Cardinality({r \in table : NaturalKey(r) = nk}) = 1
                    /\ \A r \in table :
                          NaturalKey(r) = nk =>
                             /\ r.cant_trx = rec.cant_trx
                             /\ r.transaction_amount = rec.transaction_amount
                             /\ r.entity = rec.entity
                             /\ r.source_file = new_files[n].key

\* a run that listed a.csv before d.csv and loaded both has returned; the
\* row of their common key, inserted by a.csv, holds the last record of
\* d.csv
C23_Witness ==
    /\ pc = "done"
    /\ hist.table0 = {}
    /\ \E m, n \in Attempted :
         /\ m < n
         /\ new_files[m].key = "a.csv" /\ outcome[m] = "ok"
         /\ new_files[n].key = "d.csv" /\ outcome[n] = "ok"
    /\ \E r \in table :
         /\ r.id = 1 /\ r.hour = 24
         /\ r.source_file = "d.csv"
         /\ r.cant_trx = 9 /\ r.transaction_amount = 90 /\ r.entity = "E3"

\* a step in which update_sync_metadata raises
RecordingFails == pc = "record" /\ pc' = "failed"

\* the listed files from the n-th on that the run has loaded
LoadedFromOn(n) == {new_files[o].key : o \in {x \in Attempted : x >= n /\ outcome[x] = "ok"}}

\* C24: every record of a file the run has loaded has its row in the
\* table, written by that file or by a file loaded after it, whatever became
\* of the files after it; a failing iteration and a failing
\* update_sync_metadata leave the table as it is, and no step of a run
\* removes a row.
C24_CommittedRowsStay ==
    [][ /\ \A n \in Attempted :
              outcome[n] = "ok" =>
                 \A x \in 1..Len(LoadedFrom(n)) :
                    \E r \in table :
                       /\ NaturalKey(r) = NaturalKey(LoadedFrom(n)[x])
                       /\ r.source_file \in LoadedFromOn(n)
        /\ (IterationFails \/ RecordingFails) => table' = table
        /\ \A r \in table : \E r2 \in table' : Identity(r2) = Identity(r)
      ]_vars

\* a.csv was loaded, the load of b.csv after it failed, the recording
\* failed, and the rows of a.csv are in the table
C24_Witness ==
    /\ pc = "failed"
    /\ hist.recordCalls = 1
    /\ hist.table0 = {}
    /\ outcome = << "ok", "load" >>
    /\ new_files[1].key = "a.csv"
    /\ Cardinality(table) = 2
    /\ \A r \in table : r.source_file = "a.csv"

Running == pc \in {"schema", "lastsync", "list", "download", "transform",
                   "load", "record", "close"}

\* C25: a run that has started ends, by returning or by raising.  Once it
\* has listed it does not list again and keeps its listing; the loop index
\* moves by one at a time, each iteration is on the file at the index and
\* ends with one entry for it, and the run leaves the loop (to recording)
\* with one entry for each listed file.
C25_RunTerminates ==
    /\ Running ~> pc \in {"done", "failed"}
    /\ [][ runs' = runs =>
             /\ hist.listed => (pc' # "list" /\ new_files' = new_files)
             /\ (hist.listed /\ i' # i) =>
                   /\ i' = i + 1
                   /\ i \in 1..Len(new_files)
                   /\ Len(outcome) = i - 1
                   /\ Len(outcome') = i
             /\ outcome' # outcome => i' = i + 1
             /\ (pc # "record" /\ pc' = "record") =>
                   /\ Len(outcome') = Len(new_files)
                   /\ i' = Len(new_files) + 1
       ]_vars

\* a run of three listed files, with a failure among them, has ended
C25_Witness ==
    /\ pc \in {"done", "failed"}
    /\ Len(new_files) = 3
    /\ Len(outcome) = 3
    /\ \E n \in Attempted : outcome[n] # "ok"
    /\ i = 4

\* a step in which update_sync_metadata commits the run's row
RecordingStep == pc = "record" /\ meta' # meta

\* C26: no ".csv" object is left behind the watermark without having been
\* listed by a run: when a run records its row, every object whose
\* LastModified is at or before the new watermark, and after the watermark
\* the run listed with (so that no earlier recorded run can have listed
\* it), is in the listing of this run with that LastModified; an object
\* written after the listing and before the recording is such an object.
\* (Stated for the recordings whose INSERT begins its transaction: their
\* CURRENT_TIMESTAMP is later than every write the bucket has seen.)
C26_NoFileSkipped ==
    [][ (RecordingStep /\ conn = "idle") =>
          LET w == meta'[Len(meta')].last_sync_time
              used == IF last_sync = None THEN now - Lookback ELSE last_sync
          IN  \A k \in Keys :
                 (/\ EndsWithCsv(k) /\ s3[k] # 0
                  /\ s3[k] <= w /\ s3[k] > used) =>
                     \E n \in 1..Len(new_files) :
                        new_files[n] = [key |-> k, last_modified |-> s3[k]]
      ]_vars

\* C27: every row of etl_metadata the job writes has status 'success'; a
\* run whose listed files all failed still appends a 'success' row, with
\* files_processed = 0, and get_last_sync_time then returns that row's
\* time, which is not before the watermark the run read.
C27_AlwaysSuccessRow ==
    [][ /\ \A n \in 1..Len(meta') : meta'[n].status = "success"
        /\ (pc = "record" /\ pc' # "record" /\ Succeeded = {}) =>
              /\ Len(meta') = Len(meta) + 1
              /\ SubSeq(meta', 1, Len(meta)) = meta
              /\ meta'[Len(meta')].files_processed = 0
              /\ LastSyncResults(meta') = {meta'[Len(meta')].last_sync_time}
              /\ last_sync # None =>
                    meta'[Len(meta')].last_sync_time >= last_sync
      ]_vars

\* C28: etl_metadata only grows at its end, by at most one row per run,
\* and what get_last_sync_time can return after a step is not before what
\* it could return before the step.
C28_AppendOnlyMonotonic ==
    [][ /\ Len(meta') >= Len(meta)
        /\ SubSeq(meta', 1, Len(meta)) = meta
        /\ Len(meta') <= Len(hist'.meta0) + 1
        /\ meta' # meta => pc = "record"
        /\ \A w \in LastSyncResults(meta), w2 \in LastSyncResults(meta') :
              w # None => (w2 # None /\ w2 >= w)
      ]_vars

\* two runs have each recorded a row, the second with a later time
C28_Witness ==
    /\ pc = "done"
    /\ runs = 2
    /\ Len(meta) = 2
    /\ Len(hist.meta0) = 1
    /\ meta[2].last_sync_time > meta[1].last_sync_time
    /\ LastSyncResults(meta) = {meta[2].last_sync_time}

\* C29: when run() has returned or raised, the connection it opened (if
\* get_db_connection returned one) is closed and has no transaction.
C29_ConnectionReleased ==
    (pc \in {"done", "failed"} /\ conn # "none") =>
        conn = "closed" /\ txnStart = 0

====
